---- MODULE Spec2Model ----
(***************************************************************************)
(* Asclepius API: the symptom-intake schemas (app/schemas.py) and the      *)
(* request handlers with their in-memory diagnosis history (app/main.py).  *)
(*                                                                         *)
(* Text is modelled by TLA+ strings handled character by character, so     *)
(* that str.lower, str.strip, str.split, str.count, the `in` substring     *)
(* test and the blood-pressure regular expression are computed the way     *)
(* Python computes them.  An Optional[...] field is a set with at most one *)
(* element: None is {} and a present value v is {v}.  A temperature is     *)
(* kept in tenths of a degree Fahrenheit (99.5 is 995).                    *)
(***************************************************************************)
EXTENDS Integers, Sequences, FiniteSets, TLC

(***************************************************************************)
(* Python built-ins used by the validators                                 *)
(***************************************************************************)
None == {}

Some(v) == {v}

Val(o) == CHOOSE v \in o : TRUE

\* Python truthiness of an Optional[int]: None and 0 are falsy.
Truthy(o) == o # None /\ Val(o) # 0

Min(a, b) == IF a <= b THEN a ELSE b

Upper == <<"A","B","C","D","E","F","G","H","I","J","K","L","M",
           "N","O","P","Q","R","S","T","U","V","W","X","Y","Z">>

Lowercase == <<"a","b","c","d","e","f","g","h","i","j","k","l","m",
               "n","o","p","q","r","s","t","u","v","w","x","y","z">>

CharAt(s, i) == SubSeq(s, i, i)

LowerMap ==
  [u \in {Upper[k] : k \in 1..26} |-> Lowercase[CHOOSE k \in 1..26 : Upper[k] = u]]

LowerChar(c) == IF c \in DOMAIN LowerMap THEN LowerMap[c] ELSE c

RECURSIVE LowerFrom(_, _)
LowerFrom(s, i) ==
  IF i > Len(s) THEN "" ELSE LowerChar(CharAt(s, i)) \o LowerFrom(s, i + 1)

\* str.lower()
lower(s) == LowerFrom(s, 1)

\* str.isspace() for one character
IsSpace(c) == c \in {" ", "\t", "\n", "\r"}

\* str.strip(): drop the leading and the trailing whitespace
strip(s) ==
  LET nonspace == {i \in 1..Len(s) : ~IsSpace(CharAt(s, i))}
  IN IF nonspace = {} THEN ""
     ELSE LET first == CHOOSE i \in nonspace : \A j \in nonspace : i <= j
              last  == CHOOSE i \in nonspace : \A j \in nonspace : j <= i
          IN SubSeq(s, first, last)

\* str.split() without argument: the maximal runs of non-whitespace
split(s) ==
  LET starts == {i \in 1..Len(s) :
                   /\ ~IsSpace(CharAt(s, i))
                   /\ (i = 1 \/ IsSpace(CharAt(s, i - 1)))}
      endOf(i) == CHOOSE j \in i..Len(s) :
                   /\ \A k \in i..j : ~IsSpace(CharAt(s, k))
                   /\ (j = Len(s) \/ IsSpace(CharAt(s, j + 1)))
      RECURSIVE words(_)
      words(i) ==
        IF i > Len(s) THEN << >>
        ELSE IF i \in starts
             THEN <<SubSeq(s, i, endOf(i))>> \o words(endOf(i) + 1)
             ELSE words(i + 1)
  IN words(1)

\* str.count(c) for a one-character c
count(s, c) == Cardinality({i \in 1..Len(s) : CharAt(s, i) = c})

\* `sub in s`
contains(s, sub) ==
  \E i \in 1..(Len(s) - Len(sub) + 1) : SubSeq(s, i, i + Len(sub) - 1) = sub

\* any(k in s for k in keywords)
any_in(keywords, s) == \E k \in keywords : contains(s, k)

IsDigit(c) == c \in {"0","1","2","3","4","5","6","7","8","9"}

DigitVal(c) ==
  CASE c = "0" -> 0 [] c = "1" -> 1 [] c = "2" -> 2 [] c = "3" -> 3
    [] c = "4" -> 4 [] c = "5" -> 5 [] c = "6" -> 6 [] c = "7" -> 7
    [] c = "8" -> 8 [] c = "9" -> 9

RECURSIVE DigitsVal(_, _)
DigitsVal(s, n) ==
  IF n = 0 THEN 0 ELSE 10 * DigitsVal(s, n - 1) + DigitVal(CharAt(s, n))

\* int(s): surrounding whitespace is ignored, the rest must be digits
int(s) == DigitsVal(strip(s), Len(strip(s)))

(***************************************************************************)
(* Validation outcomes.  A validator either returns a value or raises an   *)
(* error: msg is the message the code raises with (shortened), kind the    *)
(* error kind that message stands for.                                     *)
(***************************************************************************)
Ok(v) == [ok |-> TRUE, value |-> v, kind |-> "none", msg |-> "none"]

Raise(k, m) == [ok |-> FALSE, value |-> None, kind |-> k, msg |-> m]

(***************************************************************************)
(* Blood pressure: re.match(r'^\d{2,3}/\d{2,3}$', v).  In Python `$`       *)
(* matches at the end of the string and also just before a newline that    *)
(* ends the string.                                                        *)
(***************************************************************************)
FullMatchBP(v) ==
  \E p \in 1..Len(v) :
    /\ CharAt(v, p) = "/"
    /\ (p - 1) \in {2, 3}
    /\ (Len(v) - p) \in {2, 3}
    /\ \A i \in 1..Len(v) : i # p => IsDigit(CharAt(v, i))

re_match_bp(v) ==
  \/ FullMatchBP(v)
  \/ /\ Len(v) >= 1
     /\ CharAt(v, Len(v)) = "\n"
     /\ FullMatchBP(SubSeq(v, 1, Len(v) - 1))

\* v.split('/') of a string that holds exactly one '/'
SlashPos(v) == CHOOSE p \in 1..Len(v) : CharAt(v, p) = "/"

systolic_of(v) == int(SubSeq(v, 1, SlashPos(v) - 1))

diastolic_of(v) == int(SubSeq(v, SlashPos(v) + 1, Len(v)))

\* VitalSigns.validate_bp_format
validate_bp_format(v) ==
  IF v = None THEN Ok(v)
  ELSE IF ~re_match_bp(Val(v))
       THEN Raise("InvalidFormat", "must be in format: systolic/diastolic (e.g., 120/80)")
  ELSE LET systolic  == systolic_of(Val(v))
           diastolic == diastolic_of(Val(v))
       IN IF ~(70 <= systolic /\ systolic <= 200)
          THEN Raise("OutOfRange", "Systolic pressure must be between 70-200 mmHg")
          ELSE IF ~(40 <= diastolic /\ diastolic <= 130)
          THEN Raise("OutOfRange", "Diastolic pressure must be between 40-130 mmHg")
          ELSE IF systolic <= diastolic
          THEN Raise("Inconsistent", "Systolic must be greater than diastolic")
          ELSE Ok(v)

\* SymptomInput.validate_blood_pressure
validate_blood_pressure(v) ==
  IF v = None THEN Ok(v)
  ELSE IF ~re_match_bp(Val(v))
       THEN Raise("InvalidFormat", "must be in format: 120/80")
  ELSE LET systolic  == systolic_of(Val(v))
           diastolic == diastolic_of(Val(v))
       IN IF ~(70 <= systolic /\ systolic <= 200)
          THEN Raise("OutOfRange", "Systolic pressure must be between 70-200 mmHg")
          ELSE IF ~(40 <= diastolic /\ diastolic <= 130)
          THEN Raise("OutOfRange", "Diastolic pressure must be between 40-130 mmHg")
          ELSE IF systolic <= diastolic
          THEN Raise("Inconsistent", "Systolic must be greater than diastolic")
          ELSE Ok(v)

(***************************************************************************)
(* SymptomInput: the field validators                                      *)
(***************************************************************************)
spam_phrases == {"test", "testing", "asdf", "qwerty", "none", "n/a", "dummy"}

Range(f) == {f[i] : i \in DOMAIN f}

\* SymptomInput.validate_symptoms_not_spam
validate_symptoms_not_spam(v) ==
  LET v_lower == lower(strip(v))
      words   == split(v_lower)
  IN IF any_in(spam_phrases, v_lower) THEN Raise("SpamOrMeaninglessText", "not test data")
     ELSE IF /\ Len(words) > 3
             \* len(unique_words) / len(words) < 0.4
             /\ 10 * Cardinality(Range(words)) < 4 * Len(words)
          THEN Raise("RepetitiveText", "varied symptom description")
     ELSE IF count(v, "!") > 3 \/ count(v, "?") > 3
          THEN Raise("ExcessivePunctuation", "normal punctuation")
     ELSE Ok(strip(v))

\* SymptomInput.validate_age_realistic
validate_age_realistic(v) ==
  IF v # None /\ Val(v) < 1 THEN Raise("AgeOutOfRange", "Age must be at least 1")
  ELSE IF v # None /\ Val(v) > 120 THEN Raise("AgeOutOfRange", "Age seems unrealistic")
  ELSE Ok(v)

\* Field(None, ge=lo, le=hi) on an Optional number
InRange(v, lo, hi, k) ==
  IF v # None /\ Val(v) < lo THEN Raise(k, "greater_than_equal")
  ELSE IF v # None /\ Val(v) > hi THEN Raise(k, "less_than_equal")
  ELSE Ok(v)

Durations == {"hours", "1 day", "2-3 days", "week+"}

\* symptoms: str = Field(..., min_length=20) and then its validator
field_symptoms(v) ==
  IF Len(v) < 20 THEN Raise("TextTooShort", "string_too_short") ELSE validate_symptoms_not_spam(v)

field_duration(v) ==
  IF v # None /\ Val(v) \notin Durations THEN Raise("InvalidDuration", "literal_error") ELSE Ok(v)

field_severity(v) == InRange(v, 1, 10, "SeverityOutOfRange")

\* age: the declared range first, the validator only on a value in range
field_age(v) ==
  IF InRange(v, 1, 120, "AgeOutOfRange").ok
  THEN validate_age_realistic(v)
  ELSE InRange(v, 1, 120, "AgeOutOfRange")

field_heart_rate(v) == InRange(v, 40, 200, "HeartRateOutOfRange")

field_blood_pressure(v) == validate_blood_pressure(v)

field_temperature(v) == InRange(v, 950, 1080, "TemperatureOutOfRange")

(***************************************************************************)
(* SymptomInput: the model validators (mode='after'), on the validated     *)
(* fields                                                                  *)
(***************************************************************************)
adult_keywords == {"pregnancy", "menopause", "prostate", "erectile", "viagra"}

high_acuity_keywords == {"chest pain", "stroke", "fall"}

serious_keywords == {"severe", "extreme", "intense", "unbearable", "can't", "unable"}

low_severity_emergency_keywords == {"severe", "extreme", "unbearable", "emergency"}

\* SymptomInput.validate_age_symptom_compatibility
validate_age_symptom_compatibility(self) ==
  IF Truthy(self.age) /\ self.symptoms # ""
  THEN LET symptoms_lower == lower(self.symptoms)
       IN IF Val(self.age) < 12 /\ any_in(adult_keywords, symptoms_lower)
          THEN Raise("AgeSymptomMismatch", "Symptoms not appropriate for age")
          ELSE IF /\ Val(self.age) > 70
                  /\ Truthy(self.severity)
                  /\ Val(self.severity) < 3
                  /\ any_in(high_acuity_keywords, symptoms_lower)
               THEN Raise("AgeSymptomMismatch", "Severity seems low for elderly patient")
               ELSE Ok(self)
  ELSE Ok(self)

\* SymptomInput.validate_severity_matches_description
validate_severity_matches_description(self) ==
  IF Truthy(self.severity) /\ self.symptoms # ""
  THEN LET symptoms_lower == lower(self.symptoms)
       IN IF Val(self.severity) >= 8 /\ ~any_in(serious_keywords, symptoms_lower)
          THEN Raise("SeverityTextMismatch", "High severity (8+) should be described")
          ELSE IF /\ Val(self.severity) <= 3
                  /\ any_in(low_severity_emergency_keywords, symptoms_lower)
               THEN Raise("SeverityTextMismatch", "Low severity (1-3) conflicts")
               ELSE Ok(self)
  ELSE Ok(self)

\* the error a validator contributes to the ValidationError
FieldError(r) == IF r.ok THEN << >> ELSE <<[kind |-> r.kind, msg |-> r.msg]>>

\* the two model validators in the other order
model_validators_swapped(self) ==
  IF ~validate_severity_matches_description(self).ok
  THEN FieldError(validate_severity_matches_description(self))
  ELSE FieldError(validate_age_symptom_compatibility(self))

\* the model validators in their order of definition; the first that raises ends the chain
model_validators(self) ==
  IF ~validate_age_symptom_compatibility(self).ok
  THEN FieldError(validate_age_symptom_compatibility(self))
  ELSE FieldError(validate_severity_matches_description(self))

(***************************************************************************)
(* Constructing a SymptomInput from a candidate record: every field is     *)
(* validated and the errors of all fields are collected in the order of    *)
(* the fields; the model validators run only when no field has an error.   *)
(* The result carries the list of errors (empty when the record is valid)  *)
(* and the validated record.                                               *)
(***************************************************************************)
field_errors(raw) ==
  FieldError(field_symptoms(raw.symptoms))
    \o FieldError(field_duration(raw.duration))
    \o FieldError(field_severity(raw.severity))
    \o FieldError(field_age(raw.age))
    \o FieldError(field_heart_rate(raw.heart_rate))
    \o FieldError(field_blood_pressure(raw.blood_pressure))
    \o FieldError(field_temperature(raw.temperature))

SymptomInput(raw) ==
  IF field_errors(raw) # << >>
  THEN [errors |-> field_errors(raw), self |-> raw]
  ELSE LET self == [raw EXCEPT !.symptoms = field_symptoms(raw.symptoms).value]
       IN [errors |-> model_validators(self), self |-> self]

(***************************************************************************)
(* SymptomInput: the computed fields                                       *)
(***************************************************************************)
\* the scorer with the 60-year band starting at 60 instead of above 60
risk_score_band_from_60(self) ==
  LET age_points ==
        IF Truthy(self.age)
        THEN IF Val(self.age) < 1 THEN 20
             ELSE IF Val(self.age) < 5 THEN 15
             ELSE IF Val(self.age) > 70 THEN 25
             ELSE IF Val(self.age) >= 60 THEN 15
             ELSE 5
        ELSE 0
      severity_points ==
        IF Truthy(self.severity) THEN Val(self.severity) * 4 ELSE 0
      heart_points ==
        IF Truthy(self.heart_rate)
           /\ (Val(self.heart_rate) > 100 \/ Val(self.heart_rate) < 60)
        THEN 15 ELSE 0
      temperature_points ==
        IF Truthy(self.temperature)
           /\ (Val(self.temperature) > 1004 \/ Val(self.temperature) < 970)
        THEN 15 ELSE 0
  IN Min(age_points + severity_points + heart_points + temperature_points, 100)

\* SymptomInput.risk_score
risk_score(self) ==
  LET age_points ==
        IF Truthy(self.age)
        THEN IF Val(self.age) < 1 THEN 20
             ELSE IF Val(self.age) < 5 THEN 15
             ELSE IF Val(self.age) > 70 THEN 25
             ELSE IF Val(self.age) > 60 THEN 15
             ELSE 5
        ELSE 0
      severity_points ==
        IF Truthy(self.severity) THEN Val(self.severity) * 4 ELSE 0
      heart_points ==
        IF Truthy(self.heart_rate)
           /\ (Val(self.heart_rate) > 100 \/ Val(self.heart_rate) < 60)
        THEN 15 ELSE 0
      temperature_points ==
        IF Truthy(self.temperature)
           /\ (Val(self.temperature) > 1004 \/ Val(self.temperature) < 970)
        THEN 15 ELSE 0
  IN Min(age_points + severity_points + heart_points + temperature_points, 100)

\* SymptomInput.urgency_level
urgency_level(self) ==
  IF risk_score(self) >= 70 THEN "CRITICAL"
  ELSE IF risk_score(self) >= 50 THEN "HIGH"
  ELSE IF risk_score(self) >= 30 THEN "MODERATE"
  ELSE "LOW"

\* SymptomInput.patient_category
patient_category(self) ==
  IF ~Truthy(self.age) THEN "UNKNOWN"
  ELSE IF Val(self.age) < 2 THEN "INFANT"
  ELSE IF Val(self.age) < 12 THEN "PEDIATRIC"
  ELSE IF Val(self.age) < 18 THEN "ADOLESCENT"
  ELSE IF Val(self.age) < 65 THEN "ADULT"
  ELSE "GERIATRIC"

\* VitalSigns(blood_pressure=v): the only field given is the blood pressure
VitalSigns(raw) ==
  [errors |-> FieldError(validate_bp_format(raw.blood_pressure)),
   self   |-> [heart_rate |-> None, blood_pressure |-> raw.blood_pressure,
               temperature |-> None]]

(***************************************************************************)
(* Response and history schemas: a constructor call fails with a           *)
(* ValidationError when a required field is not among the keyword          *)
(* arguments.                                                              *)
(***************************************************************************)
\* the response schema without its three derived fields
DiagnosisResponse_required_without_derived ==
  {"severity", "recommendation", "confidence", "analyzed_symptoms"}

DiagnosisResponse_required ==
  {"severity", "recommendation", "confidence", "analyzed_symptoms",
   "risk_score", "urgency_level", "patient_category"}

DiagnosisHistory_required ==
  {"id", "symptoms", "severity", "recommendation", "risk_score", "timestamp"}

EchoResponse_required ==
  {"received_symptoms", "received_duration", "received_severity", "message",
   "risk_score", "urgency_level", "patient_category"}

Construct(required, kwargs) ==
  IF required \subseteq DOMAIN kwargs
  THEN Ok(kwargs)
  ELSE Raise("ValidationError", "missing")

\* confidence: float = Field(..., ge=0, le=1), kept in hundredths
DiagnosisResponse(kwargs) ==
  IF ~Construct(DiagnosisResponse_required, kwargs).ok
  THEN Construct(DiagnosisResponse_required, kwargs)
  ELSE IF ~(0 <= kwargs.confidence /\ kwargs.confidence <= 100)
       THEN Raise("ValidationError", "confidence")
       ELSE Ok(kwargs)

DiagnosisHistory(kwargs) == Construct(DiagnosisHistory_required, kwargs)

EchoResponse(kwargs) == Construct(EchoResponse_required, kwargs)

(***************************************************************************)
(* diagnose_symptoms: the keyword arguments the priority chain passes to   *)
(* DiagnosisResponse                                                       *)
(***************************************************************************)
emergency_keywords == {"chest pain", "can't breathe", "severe bleeding", "stroke"}

result_kwargs(symptom_data) ==
  LET symptoms_lower == lower(symptom_data.symptoms)
  IN IF any_in(emergency_keywords, symptoms_lower)
     THEN [severity |-> "emergency",
           recommendation |-> "Call 112 immediately or go to the nearest emergency room",
           confidence |-> 95,
           analyzed_symptoms |-> symptom_data.symptoms]
     ELSE IF Truthy(symptom_data.severity) /\ Val(symptom_data.severity) >= 8
     THEN [severity |-> "severe",
           recommendation |-> "Seek medical attention within 4 hours",
           confidence |-> 80,
           analyzed_symptoms |-> symptom_data.symptoms]
     ELSE IF Truthy(symptom_data.severity) /\ Val(symptom_data.severity) >= 5
     THEN [severity |-> "moderate",
           recommendation |-> "Consider seeing a doctor within 24-48 hours",
           confidence |-> 70,
           analyzed_symptoms |-> symptom_data.symptoms]
     ELSE [severity |-> "mild",
           recommendation |-> "Monitor symptoms. Rest and stay hydrated. See a doctor if symptoms worsen.",
           confidence |-> 65,
           analyzed_symptoms |-> symptom_data.symptoms]

\* echo_symptoms: the keyword arguments passed to EchoResponse
echo_kwargs(symptom_data) ==
  [received_symptoms |-> symptom_data.symptoms,
   received_duration |-> symptom_data.duration,
   received_severity |-> symptom_data.severity,
   message |-> "Received your symptoms: "
                 \o SubSeq(symptom_data.symptoms, 1, Min(50, Len(symptom_data.symptoms)))
                 \o "..."]

\* a handler that takes the request body without validating it
request_validation_skipped(body) == << >>

\* The framework builds the handler's SymptomInput parameter from the request
\* body; the handler runs only when that raises no error.
request_validation(body) == SymptomInput(body).errors

(***************************************************************************)
(* Bounds and inputs                                                       *)
(***************************************************************************)
NumClients == 2

MaxCounter == 3

Clients == 1..NumClients

Record(s, sev, age, hr, bp, temp) ==
  [symptoms |-> s, duration |-> None, severity |-> sev, age |-> age,
   heart_rate |-> hr, blood_pressure |-> bp, temperature |-> temp]

PlainText == "I have a persistent headache with dizziness and nausea"

ChestPainText == "I have chest pain and feel dizzy when standing up for a while"

IntenseText == "I have an intense headache with dizziness and nausea"

SevereText == "I have a severe, unbearable, intense headache that won't stop"

BlankText == "                      "

Texts ==
  { PlainText, ChestPainText, IntenseText, SevereText, BlankText,
    "mild tiredness",
    "test",
    "This is only a TEST of the symptom checker",
    "Nonetheless my stomach aches after meals",
    "pain pain pain pain pain pain",
    "asdf asdf asdf asdf asdf!!!!",
    "My head hurts so much!!!! Please help me",
    "Why does my head hurt so much???? I wonder",
    "Nausea and cramps during Pregnancy lately",
    "Severe cramps during pregnancy since monday",
    "I had a bad fall yesterday and my hip hurts",
    "  I can't breathe properly since this morning \n",
    "I feel like this is an emergency, dizzy and weak",
    "I think I had a stroke, it feels unbearable now" }

Severities == {None} \cup {Some(n) : n \in {0, 1, 2, 3, 4, 5, 7, 8, 9, 10, 11}}

Ages == {None} \cup {Some(n) : n \in {0, 1, 8, 11, 12, 30, 70, 71, 120, 121}}

ScoreAges ==
  {None} \cup {Some(n) : n \in {1, 4, 5, 11, 12, 59, 60, 61, 70, 71, 120}}

ScoreSeverities == {None} \cup {Some(n) : n \in 1..10}

HeartRates == {None} \cup {Some(n) : n \in {40, 59, 60, 100, 101}}

Temperatures == {None} \cup {Some(n) : n \in {950, 969, 970, 1004, 1005}}

Durations_in == {None, Some("hours"), Some("week+"), Some("a month")}

Systolics == {"7", "69", "70", "80", "120", "200", "201", "999", "1200", "ab"}

Diastolics == {"1", "10", "39", "40", "080", "80", "120", "130", "131", "200"}

Separators == {"/", "-", "//"}

Suffixes == {"", "\n", " ", "\n\n", "/"}

BloodPressures ==
  {None, Some("abc"), Some("")} \cup
  {Some(sy \o sep \o di \o suf) :
     sy \in Systolics, sep \in Separators, di \in Diastolics, suf \in Suffixes}

\* candidate records for the text rules and the cross-field rules
TextCandidates ==
  {Record(s, sev, age, None, bp, None) :
     s \in Texts, sev \in Severities, age \in Ages,
     bp \in {None, Some("80/120")}}

\* candidate records for the risk scorer
ScoreCandidates ==
  {Record(IntenseText, sev, age, hr, None, temp) :
     sev \in ScoreSeverities, age \in ScoreAges,
     hr \in HeartRates, temp \in Temperatures}

\* candidate records for the blood-pressure rules
PressureCandidates ==
  {Record(PlainText, None, None, None, bp, None) : bp \in BloodPressures}

\* candidate records with a scalar outside its declared range or enumeration
RangeCandidates ==
  {[Record(PlainText, None, None, None, None, None) EXCEPT !.duration = d] :
     d \in Durations_in}
  \cup {Record(PlainText, None, None, hr, None, temp) :
          hr \in {None, Some(39), Some(200), Some(201)},
          temp \in {None, Some(949), Some(1080), Some(1081)}}

Candidates ==
  TextCandidates \cup ScoreCandidates \cup PressureCandidates \cup RangeCandidates

\* request bodies sent to POST /diagnose
Bodies ==
  { Record(PlainText, None, None, None, None, None),
    Record(PlainText, Some(5), None, None, None, None),
    Record(ChestPainText, Some(5), None, None, None, None),
    Record(ChestPainText, Some(9), None, None, None, None),
    Record(SevereText, Some(9), None, None, None, None),
    Record("mild tiredness", Some(9), None, None, None, None) }

\* request bodies sent to POST /echo
EchoBodies ==
  { Record(PlainText, Some(5), None, None, None, None),
    Record("mild tiredness", Some(9), None, None, None, None) }

Operations == {"POST /diagnose", "POST /echo", "GET /history", "DELETE /history"}

(***************************************************************************)
(* State                                                                   *)
(***************************************************************************)
VARIABLES
  diagnosis_history,  \* main.py: the list of DiagnosisHistory entries
  diagnosis_counter,  \* main.py: the last id given out
  requests,           \* per client: the request in flight and its response
  candidate,          \* schemas.py: the candidate record handed to a schema
  symptom_input,      \* None, or the outcome of SymptomInput on the candidate
  vital_signs,        \* None, or the outcome of VitalSigns on the candidate
  computed            \* None, or the computed fields read from symptom_input

vars == <<diagnosis_history, diagnosis_counter, requests,
          candidate, symptom_input, vital_signs, computed>>

api_vars == <<diagnosis_history, diagnosis_counter, requests>>

schema_vars == <<candidate, symptom_input, vital_signs, computed>>

NoResponse == [status |-> 0]

Idle == [pc |-> "idle", op |-> "none", body |-> None, response |-> NoResponse]

Respond(req, response) == [req EXCEPT !.pc = "done", !.response = response]

\* a handler's return value serialised with the route's status code
Returned(status, content) == [status |-> status, content |-> content]

\* middleware.py: the answer to a request body that fails validation (the
\* framework's default answer has the same status and the same list of errors)
validation_exception_handler(errors) ==
  [status |-> 422,
   content |-> [error |-> "Validation Error", details |-> errors]]

\* middleware.py: the answer to an exception raised inside a handler
general_exception_handler(exc) ==
  [status |-> 500,
   content |-> [error |-> "Internal Server Error", type |-> exc]]

Init ==
  /\ diagnosis_history = << >>
  /\ diagnosis_counter = 0
  /\ requests = [c \in Clients |-> Idle]
  /\ candidate = Record(PlainText, None, None, None, None, None)
  /\ symptom_input = None
  /\ vital_signs = None
  /\ computed = None

(***************************************************************************)
(* The endpoints of main.py.  No handler awaits, so each runs to its end   *)
(* without another request's handler running in between.                   *)
(***************************************************************************)
\* a client sends a request
Send(c) ==
  /\ requests[c].pc \in {"idle", "done"}
  /\ diagnosis_counter < MaxCounter
  /\ \E op \in Operations :
       \E body \in (IF op = "POST /diagnose" THEN {Some(b) : b \in Bodies}
                    ELSE IF op = "POST /echo" THEN {Some(b) : b \in EchoBodies}
                    ELSE {None}) :
         requests' = [requests EXCEPT ![c] =
                        [pc |-> "pending", op |-> op, body |-> body,
                         response |-> NoResponse]]
  /\ UNCHANGED <<diagnosis_history, diagnosis_counter, schema_vars>>

\* POST /diagnose
diagnose_symptoms(c) ==
  /\ requests[c].pc = "pending"
  /\ requests[c].op = "POST /diagnose"
  /\ LET req    == requests[c]
         errors == request_validation(Val(req.body))
     IN IF errors # << >>
        THEN /\ requests' = [requests EXCEPT ![c] =
                   Respond(req, validation_exception_handler(errors))]
             /\ UNCHANGED <<diagnosis_history, diagnosis_counter>>
        ELSE LET symptom_data == SymptomInput(Val(req.body)).self
                 result       == DiagnosisResponse(result_kwargs(symptom_data))
             IN IF ~result.ok
                THEN /\ requests' = [requests EXCEPT ![c] =
                           Respond(req, general_exception_handler(result.kind))]
                     /\ UNCHANGED <<diagnosis_history, diagnosis_counter>>
                ELSE LET history_entry ==
                           DiagnosisHistory(
                             [id |-> diagnosis_counter + 1,
                              symptoms |-> symptom_data.symptoms,
                              severity |-> result.value.severity,
                              recommendation |-> result.value.recommendation,
                              timestamp |-> "now"])
                     IN /\ diagnosis_counter' = diagnosis_counter + 1
                        /\ IF ~history_entry.ok
                           THEN /\ requests' = [requests EXCEPT ![c] =
                                      Respond(req, general_exception_handler(history_entry.kind))]
                                /\ UNCHANGED diagnosis_history
                           ELSE /\ diagnosis_history' =
                                      Append(diagnosis_history, history_entry.value)
                                /\ requests' = [requests EXCEPT ![c] =
                                      Respond(req, Returned(200, result.value))]
  /\ UNCHANGED schema_vars

\* POST /echo
echo_symptoms(c) ==
  /\ requests[c].pc = "pending"
  /\ requests[c].op = "POST /echo"
  /\ LET req    == requests[c]
         errors == request_validation(Val(req.body))
     IN IF errors # << >>
        THEN requests' = [requests EXCEPT ![c] =
                 Respond(req, validation_exception_handler(errors))]
        ELSE LET symptom_data == SymptomInput(Val(req.body)).self
                 result       == EchoResponse(echo_kwargs(symptom_data))
             IN IF ~result.ok
                THEN requests' = [requests EXCEPT ![c] =
                         Respond(req, general_exception_handler(result.kind))]
                ELSE requests' = [requests EXCEPT ![c] =
                         Respond(req, Returned(200, result.value))]
  /\ UNCHANGED <<diagnosis_history, diagnosis_counter, schema_vars>>

\* GET /history
get_diagnosis_history(c) ==
  /\ requests[c].pc = "pending"
  /\ requests[c].op = "GET /history"
  /\ requests' = [requests EXCEPT ![c] =
         Respond(requests[c], Returned(200, [entries |-> diagnosis_history]))]
  /\ UNCHANGED <<diagnosis_history, diagnosis_counter, schema_vars>>

\* DELETE /history
clear_history(c) ==
  /\ requests[c].pc = "pending"
  /\ requests[c].op = "DELETE /history"
  /\ diagnosis_history' = << >>
  /\ diagnosis_counter' = 0
  /\ requests' = [requests EXCEPT ![c] = Respond(requests[c], Returned(204, [empty |-> TRUE]))]
  /\ UNCHANGED schema_vars

SendRequest == \E c \in Clients : Send(c)

Diagnose == \E c \in Clients : diagnose_symptoms(c)

Echo == \E c \in Clients : echo_symptoms(c)

GetHistory == \E c \in Clients : get_diagnosis_history(c)

ClearHistory == \E c \in Clients : clear_history(c)

Next ==
  \/ SendRequest
  \/ Diagnose
  \/ Echo
  \/ GetHistory
  \/ ClearHistory

Spec == Init /\ [][Next]_vars

(***************************************************************************)
(* The schemas of schemas.py applied to one candidate record               *)
(***************************************************************************)
SchemaInit ==
  /\ diagnosis_history = << >>
  /\ diagnosis_counter = 0
  /\ requests = [c \in Clients |-> Idle]
  /\ candidate \in Candidates
  /\ symptom_input = None
  /\ vital_signs = None
  /\ computed = None

\* SymptomInput(**candidate)
ConstructSymptomInput ==
  /\ symptom_input = None
  /\ symptom_input' = Some(SymptomInput(candidate))
  /\ UNCHANGED <<api_vars, candidate, vital_signs, computed>>

\* VitalSigns(blood_pressure=candidate.blood_pressure)
ConstructVitalSigns ==
  /\ vital_signs = None
  /\ vital_signs' = Some(VitalSigns(candidate))
  /\ UNCHANGED <<api_vars, candidate, symptom_input, computed>>

\* reading risk_score, urgency_level and patient_category of a validated record
ReadComputedFields ==
  /\ symptom_input # None
  /\ Val(symptom_input).errors = << >>
  /\ computed = None
  /\ computed' = Some([risk_score       |-> risk_score(Val(symptom_input).self),
                       urgency_level    |-> urgency_level(Val(symptom_input).self),
                       patient_category |-> patient_category(Val(symptom_input).self)])
  /\ UNCHANGED <<api_vars, candidate, symptom_input, vital_signs>>

SchemaNext ==
  \/ ConstructSymptomInput
  \/ ConstructVitalSigns
  \/ ReadComputedFields

SchemaSpec == SchemaInit /\ [][SchemaNext]_vars

(***************************************************************************)
(* Vocabulary of the properties                                            *)
(***************************************************************************)
Kinds(errors) == [i \in DOMAIN errors |-> errors[i].kind]

Msgs(errors) == [i \in DOMAIN errors |-> errors[i].msg]

ValidBody(body) == SymptomInput(body).errors = << >>

\* the step in which client c's pending request is handled
Handled(c, op) ==
  /\ requests[c].pc = "pending"
  /\ requests[c].op = op
  /\ requests'[c].pc = "done"

HandledValidDiagnose(c) ==
  /\ Handled(c, "POST /diagnose")
  /\ ValidBody(Val(requests[c].body))

Completed(c, op) == requests[c].pc = "done" /\ requests[c].op = op

DiagnosisResultFields ==
  {"severity", "recommendation", "confidence",
   "risk_score", "urgency_level", "patient_category"}

\* the rules of the Symptom-Record Validator, read off the candidate record
TextOf(raw) == lower(strip(raw.symptoms))

TextTooShort(raw) == Len(raw.symptoms) < 20

SpamText(raw) == \E p \in spam_phrases : contains(TextOf(raw), p)

RepetitiveText(raw) ==
  LET words == split(TextOf(raw))
  IN Len(words) > 3 /\ 10 * Cardinality({words[i] : i \in 1..Len(words)}) < 4 * Len(words)

ExcessivePunctuation(raw) == count(raw.symptoms, "!") > 3 \/ count(raw.symptoms, "?") > 3

SymptomsRuleKind(raw) ==
  IF TextTooShort(raw) THEN <<"TextTooShort">>
  ELSE IF SpamText(raw) THEN <<"SpamOrMeaninglessText">>
  ELSE IF RepetitiveText(raw) THEN <<"RepetitiveText">>
  ELSE IF ExcessivePunctuation(raw) THEN <<"ExcessivePunctuation">>
  ELSE << >>

AgeRuleKind(raw) ==
  IF raw.age # None /\ Val(raw.age) \notin 1..120 THEN <<"AgeOutOfRange">> ELSE << >>

BloodPressureKinds == {"InvalidFormat", "OutOfRange", "Inconsistent"}

SymptomsKinds ==
  {"TextTooShort", "SpamOrMeaninglessText", "RepetitiveText", "ExcessivePunctuation"}

CrossFieldKinds == {"AgeSymptomMismatch", "SeverityTextMismatch"}

\* the scalars the validator checks by their declared type alone are in range
DeclaredRangesHold(raw) ==
  /\ raw.severity = None \/ Val(raw.severity) \in 1..10
  /\ raw.heart_rate = None \/ Val(raw.heart_rate) \in 40..200
  /\ raw.temperature = None \/ Val(raw.temperature) \in 950..1080
  /\ raw.duration = None \/ Val(raw.duration) \in {"hours", "1 day", "2-3 days", "week+"}

AdultKeywordRule(raw) ==
  /\ raw.age # None /\ Val(raw.age) < 12
  /\ \E k \in {"pregnancy", "menopause", "prostate", "erectile", "viagra"} :
       contains(TextOf(raw), k)

ElderlyRule(raw) ==
  /\ raw.age # None /\ Val(raw.age) > 70
  /\ raw.severity # None /\ Val(raw.severity) < 3
  /\ \E k \in {"chest pain", "stroke", "fall"} : contains(TextOf(raw), k)

HasIntensityKeyword(raw) ==
  \E k \in {"severe", "extreme", "intense", "unbearable", "can't", "unable"} :
    contains(TextOf(raw), k)

HasEmergencyKeyword(raw) ==
  \E k \in {"severe", "extreme", "unbearable", "emergency"} : contains(TextOf(raw), k)

HighSeverityRule(raw) ==
  raw.severity # None /\ Val(raw.severity) >= 8 /\ ~HasIntensityKeyword(raw)

LowSeverityRule(raw) ==
  raw.severity # None /\ Val(raw.severity) <= 3 /\ HasEmergencyKeyword(raw)

\* the message of the earliest violated cross-field rule, in the order 3, 4, 5, 6
EarliestCrossFieldMsg(raw) ==
  IF AdultKeywordRule(raw) THEN <<"Symptoms not appropriate for age">>
  ELSE IF ElderlyRule(raw) THEN <<"Severity seems low for elderly patient">>
  ELSE IF HighSeverityRule(raw) THEN <<"High severity (8+) should be described">>
  ELSE IF LowSeverityRule(raw) THEN <<"Low severity (1-3) conflicts">>
  ELSE << >>

\* the kind of the earliest violated rule in the order of the specification
EarliestRuleKind(raw) ==
  IF SymptomsRuleKind(raw) # << >> THEN SymptomsRuleKind(raw)
  ELSE IF AgeRuleKind(raw) # << >> THEN AgeRuleKind(raw)
  ELSE IF ~validate_blood_pressure(raw.blood_pressure).ok
       THEN <<validate_blood_pressure(raw.blood_pressure).kind>>
  ELSE IF AdultKeywordRule(raw) \/ ElderlyRule(raw) THEN <<"AgeSymptomMismatch">>
  ELSE IF HighSeverityRule(raw) \/ LowSeverityRule(raw) THEN <<"SeverityTextMismatch">>
  ELSE << >>

Constructed == symptom_input # None

Errors == Val(symptom_input).errors

(***************************************************************************)
(* C1.  Starting from an empty log, diagnose requests on valid records     *)
(* handled one after another get the ids 1, 2, ..., N in insertion order,  *)
(* and the first one after a clear gets id 1 again: every handled valid    *)
(* diagnose request appends one entry whose id is its position in the log, *)
(* and a clear empties the log.                                            *)
(***************************************************************************)
C1_SequentialIds ==
  [][\A c \in Clients :
       /\ HandledValidDiagnose(c) =>
            /\ Len(diagnosis_history') = Len(diagnosis_history) + 1
            /\ SubSeq(diagnosis_history', 1, Len(diagnosis_history)) = diagnosis_history
            /\ diagnosis_history'[Len(diagnosis_history')].id = Len(diagnosis_history')
       /\ Handled(c, "DELETE /history") => diagnosis_history' = << >>]_vars

(***************************************************************************)
(* C2.  Every diagnose request whose record passes the validator completes *)
(* with a Diagnosis Result (status 200; severity tier, recommendation,     *)
(* confidence, risk_score, urgency_level, patient_category) and appends    *)
(* exactly one History Entry; it never ends in an internal error.          *)
(***************************************************************************)
C2_ValidDiagnoseCompletes ==
  [][\A c \in Clients :
       HandledValidDiagnose(c) =>
         /\ requests'[c].response.status = 200
         /\ DiagnosisResultFields \subseteq DOMAIN requests'[c].response.content
         /\ Len(diagnosis_history') = Len(diagnosis_history) + 1]_vars

C5_SeverityTextConsistency ==
  (Constructed /\ DeclaredRangesHold(candidate)) =>
    /\ (HighSeverityRule(candidate) \/ LowSeverityRule(candidate)) =>
         /\ Errors # << >>
         /\ ( /\ SymptomsRuleKind(candidate) = << >>
              /\ AgeRuleKind(candidate) = << >>
              /\ validate_blood_pressure(candidate.blood_pressure).ok
              /\ ~AdultKeywordRule(candidate)
              /\ ~ElderlyRule(candidate) )
              => Kinds(Errors) = <<"SeverityTextMismatch">>
    /\ (candidate.severity = None \/ Val(candidate.severity) \in 4..7) =>
         \A i \in 1..Len(Errors) : Errors[i].kind # "SeverityTextMismatch"

(***************************************************************************)
(* C6.  For every valid record the risk score is the sum, capped at 100,   *)
(* of the age contribution (age < 1: 20, 1 <= age < 5: 15, age > 70: 25,   *)
(* 60 < age <= 70: 15, any other age: 5, no age: 0), severity * 4, 15 for  *)
(* a heart rate above 100 or below 60 and 15 for a temperature above 100.4 *)
(* or below 97; it lies in 0..100; and the urgency level is CRITICAL from  *)
(* 70, HIGH from 50, MODERATE from 30 and LOW below.                       *)
(***************************************************************************)
AgeContribution(age) ==
  CASE age = None -> 0
    [] age # None /\ Val(age) < 1 -> 20
    [] age # None /\ 1 <= Val(age) /\ Val(age) < 5 -> 15
    [] age # None /\ Val(age) > 70 -> 25
    [] age # None /\ 60 < Val(age) /\ Val(age) <= 70 -> 15
    [] OTHER -> 5

VitalsContribution(hr, temp) ==
  (IF hr # None /\ (Val(hr) > 100 \/ Val(hr) < 60) THEN 15 ELSE 0)
    + (IF temp # None /\ (Val(temp) > 1004 \/ Val(temp) < 970) THEN 15 ELSE 0)

UrgencyOf(score) ==
  CASE score >= 70 -> "CRITICAL"
    [] score < 70 /\ score >= 50 -> "HIGH"
    [] score < 50 /\ score >= 30 -> "MODERATE"
    [] OTHER -> "LOW"

C6_RiskScore ==
  computed # None =>
    LET self == Val(symptom_input).self
        sum  == AgeContribution(self.age)
                  + (IF self.severity = None THEN 0 ELSE Val(self.severity) * 4)
                  + VitalsContribution(self.heart_rate, self.temperature)
    IN /\ Val(computed).risk_score = (IF sum > 100 THEN 100 ELSE sum)
       /\ Val(computed).risk_score \in 0..100
       /\ Val(computed).urgency_level = UrgencyOf(Val(computed).risk_score)

\* the scorer has been read on an elderly, feverish record of the top severity
C6_Witness ==
  /\ computed # None
  /\ candidate.age = Some(71)
  /\ candidate.severity = Some(10)
  /\ candidate.heart_rate = Some(101)
  /\ candidate.temperature = Some(1005)
  /\ Val(computed).risk_score = 95
  /\ Val(computed).urgency_level = "CRITICAL"

(***************************************************************************)
(* C7.  The Triage Classifier is a first-match chain over every validated  *)
(* record: a text with "chest pain", "can't breathe", "severe bleeding" or *)
(* "stroke" gives tier emergency with confidence 0.95 whatever the         *)
(* severity; otherwise severity >= 8 gives severe/0.80, severity >= 5      *)
(* moderate/0.70, and anything else mild/0.65.                             *)
(***************************************************************************)
TierOf(raw) ==
  IF \E k \in {"chest pain", "can't breathe", "severe bleeding", "stroke"} :
       contains(lower(raw.symptoms), k)
  THEN <<"emergency", 95>>
  ELSE IF raw.severity # None /\ Val(raw.severity) >= 8 THEN <<"severe", 80>>
  ELSE IF raw.severity # None /\ Val(raw.severity) >= 5 THEN <<"moderate", 70>>
  ELSE <<"mild", 65>>

C7_TriageResult ==
  \A c \in Clients :
    (Completed(c, "POST /diagnose") /\ ValidBody(Val(requests[c].body))) =>
      /\ requests[c].response.status = 200
      /\ requests[c].response.content.severity = TierOf(Val(requests[c].body))[1]
      /\ requests[c].response.content.confidence = TierOf(Val(requests[c].body))[2]

(***************************************************************************)
(* C8.  The blood-pressure validator accepts an absent value, and accepts  *)
(* a string exactly when it is two groups of 2-3 digits separated by '/'   *)
(* with systolic in 70..200, diastolic in 40..130 and systolic above       *)
(* diastolic; otherwise it fails with the first of InvalidFormat,          *)
(* OutOfRange, Inconsistent that applies; the record-level check and the   *)
(* VitalSigns check give the same verdict.                                 *)
(***************************************************************************)
TwoDigitGroups(v) ==
  \E a, b \in {2, 3} :
    /\ Len(v) = a + 1 + b
    /\ \A i \in 1..a : IsDigit(CharAt(v, i))
    /\ CharAt(v, a + 1) = "/"
    /\ \A i \in (a + 2)..(a + 1 + b) : IsDigit(CharAt(v, i))

BloodPressureVerdict(bp) ==
  IF bp = None THEN "none"
  ELSE IF ~TwoDigitGroups(Val(bp)) THEN "InvalidFormat"
  ELSE LET slash == CHOOSE p \in 1..Len(Val(bp)) : CharAt(Val(bp), p) = "/"
           sys   == DigitsVal(SubSeq(Val(bp), 1, slash - 1), slash - 1)
           dia   == DigitsVal(SubSeq(Val(bp), slash + 1, Len(Val(bp))),
                              Len(Val(bp)) - slash)
       IN IF sys < 70 \/ sys > 200 \/ dia < 40 \/ dia > 130 THEN "OutOfRange"
          ELSE IF sys <= dia THEN "Inconsistent"
          ELSE "none"

VerdictOf(errors) ==
  IF \E i \in 1..Len(errors) : errors[i].kind \in BloodPressureKinds
  THEN errors[CHOOSE i \in 1..Len(errors) : errors[i].kind \in BloodPressureKinds].kind
  ELSE "none"

C8_BloodPressure ==
  (vital_signs # None /\ Constructed) =>
    /\ VerdictOf(Val(vital_signs).errors) = BloodPressureVerdict(candidate.blood_pressure)
    /\ VerdictOf(Errors) = VerdictOf(Val(vital_signs).errors)

(***************************************************************************)
(* C9.  A diagnose request whose record the validator rejects is answered  *)
(* with the validation errors before the handler runs: it appends no       *)
(* entry and leaves the id counter and every entry as they were, whatever  *)
(* the log holds and whatever other requests are in flight.                *)
(***************************************************************************)
C9_RejectedLeavesLog ==
  [][\A c \in Clients :
       (Handled(c, "POST /diagnose") /\ ~ValidBody(Val(requests[c].body))) =>
         /\ requests'[c].response.status = 422
         /\ requests'[c].response.content.details = SymptomInput(Val(requests[c].body)).errors
         /\ diagnosis_history' = diagnosis_history
         /\ diagnosis_counter' = diagnosis_counter]_vars

\* a record that only a cross-field rule rejects has been answered while
\* another client's request was in flight
C9_Witness ==
  \E c, d \in Clients :
    /\ c # d
    /\ Completed(c, "POST /diagnose")
    /\ requests[c].body = Some(Record(ChestPainText, Some(9), None, None, None, None))
    /\ requests[c].response.status = 422
    /\ requests[d].pc = "pending"

(***************************************************************************)
(* C10.  In every reachable state the id counter equals the number of      *)
(* entries of the log and the ids are 1..counter in insertion order;       *)
(* listing the history changes neither, and a clear leaves counter 0 and   *)
(* an empty log whether or not the log was empty.                          *)
(***************************************************************************)
CounterMatchesLog ==
  /\ diagnosis_counter = Len(diagnosis_history)
  /\ \A i \in 1..Len(diagnosis_history) : diagnosis_history[i].id = i

====
